---- MODULE Spec2Model ----
(***************************************************************************)
(* Serial-in parallel-out shift register driver (src/src/sipo.rs).         *)
(*                                                                         *)
(* Spec models the single-threaded (RefCell) variant of the driver: one    *)
(* register of width N built by new(), its N virtual pins handed out by    *)
(* decompose(), and update(index, command) as the sequence of pin writes   *)
(* the code performs, one action per write, so that a write can fail at    *)
(* every position of the sequence.                                         *)
(*                                                                         *)
(* The three physical pins and the register behind them are the driver's   *)
(* environment.  A pin write that returns Ok sets the pin's level; a write *)
(* that returns Err leaves the level as it was.  The register shifts the   *)
(* data line into its chain on every rising edge of clock and copies the   *)
(* chain to its visible outputs on every rising edge of latch.             *)
(*                                                                         *)
(* SpecRT models the freertos variant: the same register with its fields   *)
(* behind Mutexes, shared by the tasks of Tasks, every lock taken with a   *)
(* timeout.  FairSpecRT adds that a task inside update keeps running.      *)
(***************************************************************************)
EXTENDS Integers, Sequences, FiniteSets, TLC

\* Largest register width explored; the code instantiates 8, 16, ..., 128.
MaxSize == 3

\* Most pin write failures the environment injects in one run.
MaxFaults == 1

\* Largest register width explored with concurrent tasks.
MaxSizeRT == 2

\* What a failing physical pin write reports (Pin::Error).
PinErrors == {"PinFault"}

PinResults == {"Ok"} \cup PinErrors

VARIABLES
    output_state,   \* RefCell<[bool; $size]>, a function 0..N-1 -> BOOLEAN
    pins,           \* the array decompose() returned: the handles' indices
    clock,          \* level of the physical clock pin (TRUE = high)
    latch,          \* level of the physical latch pin
    data,           \* level of the physical data pin
    chain,          \* the register's internal shift chain, stage 0..N-1
    visible,        \* the register's latched parallel outputs
    pc,             \* position of the (single) thread of control
    index,          \* argument of the update in progress / last update
    command,        \* argument of the update in progress / last update
    i,              \* loop variable of update's for loop
    result,         \* what the last update returned: "none", "Ok", "Err"
    err,            \* the error value the last update returned
    pinResult,      \* what the last set_high/set_low returned
    writes,         \* pin writes attempted by the update in progress / last
    visibleAtEntry, \* the visible outputs when the last update was entered
    prev,           \* the update before: its arguments and result, and its
                    \* pin writes when it returned Ok
    released,       \* the tuple release() returned, or <<>>
    faults,         \* pin write failures the environment has injected
    commanded,      \* per index, the last value commanded through its pin
    called,         \* the pin method called last, and on which handle
    owner,          \* freertos: per Mutex, the task holding it, or "free"
    tpc,            \* freertos: per task, its position in update
    tstep,          \* freertos: per task, the pin write it is at
    tindex,         \* freertos: per task, argument of its update
    tcommand,       \* freertos: per task, argument of its update
    ti,             \* freertos: per task, loop variable of the for loop
    tresult,        \* freertos: per task, what its update returned
    tskipped        \* freertos: per task, whether a lock of its update
                    \* timed out and the step it guards was left out

vars == <<output_state, pins, clock, latch, data, chain, visible, pc, index,
          command, i, result, err, pinResult, writes, visibleAtEntry, prev,
          released, faults, commanded, called, owner, tpc, tstep, tindex,
          tcommand, ti, tresult, tskipped>>

\* What only a call of a pin method changes.
callerVars == <<commanded, called>>

\* What only the tasks of the freertos variant change.
taskVars == <<owner, tpc, tstep, tindex, tcommand, ti, tresult, tskipped>>

\* The tasks sharing one register in the freertos variant.
Tasks == {"t1", "t2"}

\* The four Arc<Mutex<..>> fields of the freertos register.
Mutexes == {"output_state", "clock", "latch", "data"}

------------------------------------------------------------------------------
(* Helpers translated from the code                                         *)

\* output_state.len()
Len_(os) == Cardinality(DOMAIN os)

\* [false; $size]
AllLow_high(n) == [k \in 0..(n - 1) |-> TRUE]
AllLow(n) == [k \in 0..(n - 1) |-> FALSE]

\* output_state.borrow_mut()[index] = command
Store_all(os, idx, cmd) == [k \in DOMAIN os |-> cmd]
Store_dropped(os, idx, cmd) == os
Store(os, idx, cmd) == [os EXCEPT ![idx] = cmd]

\* for i in 1..=output_state.len()
LoopContinues_exclusive(len, k) == k < len
LoopContinues(len, k) == k <= len

\* output_state[output_state.len() - i]
BitIndex_lsbFirst(len, k) == k - 1
BitIndex(len, k) == len - k

\* if bit { data.set_high() } else { data.set_low() }: the level written
DataLevel_inverted(bit) == ~bit
DataLevel(bit) == bit

\* The data-line levels one pass of the loop over os writes, first to last.
DataSequence(os, len) == [k \in 1..len |-> DataLevel(os[BitIndex(len, k)])]

\* The ? after every pin write: an Err ends update at once.
Failed_ignored(res) == FALSE
Failed(res) == res # "Ok"

\* .map_err(|_e| ()) : the cause is dropped, the error is the unit value.
MapErr(e) == "()"

\* One attempted pin write, as recorded in writes.
Entry(pin, level, res) == [pin |-> pin, level |-> level, res |-> res]

NoCall == [index |-> 0, command |-> FALSE, result |-> "none", writes |-> <<>>]

------------------------------------------------------------------------------
(* The environment: physical pins and the register                          *)

\* The level of a pin after a write: a failed write leaves it as it was.
PinLevel(old, new, res) == IF res = "Ok" THEN new ELSE old

\* The environment injects a failure only while its budget lasts.
FaultAllowed(res, n) == res = "Ok" \/ n < MaxFaults

FaultsAfter(res, n) == IF res = "Ok" THEN n ELSE n + 1

RisingEdge(old, new) == ~old /\ new

\* One clock edge: the data line enters stage 0, every stage moves up.
ShiftIn(ch, d) == [k \in DOMAIN ch |-> IF k = 0 THEN d ELSE ch[k - 1]]

\* What the register may hold when the driver is constructed.
PowerOnPatterns(n) == {[k \in 0..(n - 1) |-> FALSE], [k \in 0..(n - 1) |-> TRUE]}

------------------------------------------------------------------------------
(* new(clock, latch, data)                                                  *)

Init ==
    \E n \in 1..MaxSize :
        /\ output_state = AllLow(n)
        /\ pins = <<>>
        /\ clock = FALSE
        /\ latch = FALSE
        /\ data = FALSE
        /\ chain \in PowerOnPatterns(n)
        /\ visible \in PowerOnPatterns(n)
        /\ pc = "idle"
        /\ index = 0
        /\ command = FALSE
        /\ i = 0
        /\ result = "none"
        /\ err = "none"
        /\ pinResult = "none"
        /\ writes = <<>>
        /\ visibleAtEntry = visible
        /\ prev = NoCall
        /\ released = <<>>
        /\ faults = 0
        /\ commanded = AllLow(n)
        /\ called = [name |-> "none", pin |-> 0]
        /\ owner = [m \in Mutexes |-> "free"]
        /\ tpc = [t \in Tasks |-> "idle"]
        /\ tstep = [t \in Tasks |-> "none"]
        /\ tindex = [t \in Tasks |-> 0]
        /\ tcommand = [t \in Tasks |-> FALSE]
        /\ ti = [t \in Tasks |-> 0]
        /\ tresult = [t \in Tasks |-> "none"]
        /\ tskipped = [t \in Tasks |-> FALSE]

------------------------------------------------------------------------------
(* decompose(): one ShiftRegisterPin per element, index = position          *)

decompose_fromOne ==
    /\ pc = "idle"
    /\ pins' = [k \in 1..Len_(output_state) |-> k]
    /\ UNCHANGED <<output_state, clock, latch, data, chain, visible, pc,
                   index, command, i, result, err, pinResult, writes,
                   visibleAtEntry, prev, released, faults>>
    /\ UNCHANGED callerVars
    /\ UNCHANGED taskVars

decompose ==
    /\ pc = "idle"
    /\ pins' = [k \in 1..Len_(output_state) |-> k - 1]
    /\ UNCHANGED <<output_state, clock, latch, data, chain, visible, pc,
                   index, command, i, result, err, pinResult, writes,
                   visibleAtEntry, prev, released, faults>>
    /\ UNCHANGED callerVars
    /\ UNCHANGED taskVars

(* release(): consumes the register; the borrow rules allow it only when no *)
(* virtual pin is alive any more.                                           *)
release_swapped ==
    /\ pc = "idle"
    /\ pc' = "released"
    /\ pins' = <<>>
    /\ released' = <<latch, clock, data>>
    /\ UNCHANGED <<output_state, clock, latch, data, chain, visible, index,
                   command, i, result, err, pinResult, writes,
                   visibleAtEntry, prev, faults>>
    /\ UNCHANGED callerVars
    /\ UNCHANGED taskVars

release ==
    /\ pc = "idle"
    /\ pc' = "released"
    /\ pins' = <<>>
    /\ released' = <<clock, latch, data>>
    /\ UNCHANGED <<output_state, clock, latch, data, chain, visible, index,
                   command, i, result, err, pinResult, writes,
                   visibleAtEntry, prev, faults>>
    /\ UNCHANGED callerVars
    /\ UNCHANGED taskVars

------------------------------------------------------------------------------
(* ShiftRegisterPin::set_high / set_low: call update(self.index, ...)       *)

Call(p, cmd) ==
    /\ pc = "idle"
    /\ p \in DOMAIN pins
    /\ pc' = "update"
    /\ index' = pins[p]
    /\ command' = cmd
    /\ prev' = [index |-> index, command |-> command, result |-> result,
                writes |-> IF result = "Ok" THEN writes ELSE <<>>]
    /\ writes' = <<>>
    /\ result' = "none"
    /\ err' = "none"
    /\ pinResult' = "none"
    /\ visibleAtEntry' = visible
    /\ commanded' = [commanded EXCEPT ![pins[p]] = cmd]
    /\ UNCHANGED <<output_state, pins, clock, latch, data, chain, visible, i,
                   released, faults>>
    /\ UNCHANGED taskVars

set_low(p) == Call(p, FALSE) /\ called' = [name |-> "set_low", pin |-> p]

set_high_inverted(p) ==
    Call(p, FALSE) /\ called' = [name |-> "set_high", pin |-> p]

set_high(p) == Call(p, TRUE) /\ called' = [name |-> "set_high", pin |-> p]

\* update returned: the pin method forwards an Err with ?, else Ok(()).
PinReturn_swallow ==
    /\ pc = "ret"
    /\ pc' = "idle"
    /\ pinResult' = "Ok"
    /\ UNCHANGED <<output_state, pins, clock, latch, data, chain, visible,
                   index, command, i, result, err, writes, visibleAtEntry,
                   prev, released, faults>>
    /\ UNCHANGED callerVars
    /\ UNCHANGED taskVars

PinReturn ==
    /\ pc = "ret"
    /\ pc' = "idle"
    /\ pinResult' = result
    /\ UNCHANGED <<output_state, pins, clock, latch, data, chain, visible,
                   index, command, i, result, err, writes, visibleAtEntry,
                   prev, released, faults>>
    /\ UNCHANGED callerVars
    /\ UNCHANGED taskVars

------------------------------------------------------------------------------
(* update(index, command), RefCell variant.  Every pin write is followed by *)
(* ?: when the write failed, update returns Err(()) at once.                *)

UpdateStore_dedup ==
    /\ pc = "update"
    /\ output_state' = Store(output_state, index, command)
    /\ pc' = IF output_state[index] = command THEN "ret" ELSE "latch_low"
    /\ result' = IF output_state[index] = command THEN "Ok" ELSE result
    /\ UNCHANGED <<pins, clock, latch, data, chain, visible, index, command,
                   i, err, pinResult, writes, visibleAtEntry, prev,
                   released, faults>>
    /\ UNCHANGED callerVars
    /\ UNCHANGED taskVars

UpdateStore ==
    /\ pc = "update"
    /\ output_state' = Store(output_state, index, command)
    /\ pc' = "latch_low"
    /\ UNCHANGED <<pins, clock, latch, data, chain, visible, index, command,
                   i, result, err, pinResult, writes, visibleAtEntry, prev,
                   released, faults>>
    /\ UNCHANGED callerVars
    /\ UNCHANGED taskVars

\* self.latch.borrow_mut().set_low().map_err(|_e| ())?;
LatchLow_raises ==
    /\ pc = "latch_low"
    /\ \E res \in PinResults :
        /\ FaultAllowed(res, faults)
        /\ faults' = FaultsAfter(res, faults)
        /\ writes' = Append(writes, Entry("latch", TRUE, res))
        /\ latch' = PinLevel(latch, TRUE, res)
        /\ visible' = IF RisingEdge(latch, latch') THEN chain ELSE visible
        /\ pc' = IF Failed(res) THEN "ret"
                 ELSE IF LoopContinues(Len_(output_state), 1) THEN "data"
                 ELSE "latch_high"
        /\ i' = IF Failed(res) THEN 0 ELSE 1
        /\ result' = IF Failed(res) THEN "Err" ELSE result
        /\ err' = IF Failed(res) THEN MapErr(res) ELSE err
    /\ UNCHANGED <<output_state, pins, clock, data, chain, index, command,
                   pinResult, visibleAtEntry, prev, released>>
    /\ UNCHANGED callerVars
    /\ UNCHANGED taskVars

LatchLow ==
    /\ pc = "latch_low"
    /\ \E res \in PinResults :
        /\ FaultAllowed(res, faults)
        /\ faults' = FaultsAfter(res, faults)
        /\ writes' = Append(writes, Entry("latch", FALSE, res))
        /\ latch' = PinLevel(latch, FALSE, res)
        /\ pc' = IF Failed(res) THEN "ret"
                 ELSE IF LoopContinues(Len_(output_state), 1) THEN "data"
                 ELSE "latch_high"
        /\ i' = IF Failed(res) THEN 0 ELSE 1
        /\ result' = IF Failed(res) THEN "Err" ELSE result
        /\ err' = IF Failed(res) THEN MapErr(res) ELSE err
    /\ UNCHANGED <<output_state, pins, clock, data, chain, visible, index,
                   command, pinResult, visibleAtEntry, prev, released>>
    /\ UNCHANGED callerVars
    /\ UNCHANGED taskVars

\* if output_state[len - i] { data.set_high()? } else { data.set_low()? }
ShiftData ==
    /\ pc = "data"
    /\ \E res \in PinResults :
        LET level == DataLevel(output_state[BitIndex(Len_(output_state), i)]) IN
        /\ FaultAllowed(res, faults)
        /\ faults' = FaultsAfter(res, faults)
        /\ writes' = Append(writes, Entry("data", level, res))
        /\ data' = PinLevel(data, level, res)
        /\ pc' = IF Failed(res) THEN "ret" ELSE "clock_high"
        /\ i' = IF Failed(res) THEN 0 ELSE i
        /\ result' = IF Failed(res) THEN "Err" ELSE result
        /\ err' = IF Failed(res) THEN MapErr(res) ELSE err
    /\ UNCHANGED <<output_state, pins, clock, latch, chain, visible, index,
                   command, pinResult, visibleAtEntry, prev, released>>
    /\ UNCHANGED callerVars
    /\ UNCHANGED taskVars

\* self.clock.borrow_mut().set_high().map_err(|_e| ())?;
ClockHigh ==
    /\ pc = "clock_high"
    /\ \E res \in PinResults :
        /\ FaultAllowed(res, faults)
        /\ faults' = FaultsAfter(res, faults)
        /\ writes' = Append(writes, Entry("clock", TRUE, res))
        /\ clock' = PinLevel(clock, TRUE, res)
        /\ chain' = IF RisingEdge(clock, clock') THEN ShiftIn(chain, data)
                    ELSE chain
        /\ pc' = IF Failed(res) THEN "ret" ELSE "clock_low"
        /\ i' = IF Failed(res) THEN 0 ELSE i
        /\ result' = IF Failed(res) THEN "Err" ELSE result
        /\ err' = IF Failed(res) THEN MapErr(res) ELSE err
    /\ UNCHANGED <<output_state, pins, latch, data, visible, index, command,
                   pinResult, visibleAtEntry, prev, released>>
    /\ UNCHANGED callerVars
    /\ UNCHANGED taskVars

\* self.clock.borrow_mut().set_low().map_err(|_e| ())?;  and the loop's step
ClockLow_omitted ==
    /\ pc = "clock_low"
    /\ pc' = IF LoopContinues(Len_(output_state), i + 1) THEN "data"
             ELSE "latch_high"
    /\ i' = i + 1
    /\ UNCHANGED <<output_state, pins, clock, latch, data, chain, visible,
                   index, command, result, err, pinResult, writes,
                   visibleAtEntry, prev, released, faults>>
    /\ UNCHANGED callerVars
    /\ UNCHANGED taskVars

ClockLow ==
    /\ pc = "clock_low"
    /\ \E res \in PinResults :
        /\ FaultAllowed(res, faults)
        /\ faults' = FaultsAfter(res, faults)
        /\ writes' = Append(writes, Entry("clock", FALSE, res))
        /\ clock' = PinLevel(clock, FALSE, res)
        /\ pc' = IF Failed(res) THEN "ret"
                 ELSE IF LoopContinues(Len_(output_state), i + 1) THEN "data"
                 ELSE "latch_high"
        /\ i' = IF Failed(res) THEN 0 ELSE i + 1
        /\ result' = IF Failed(res) THEN "Err" ELSE result
        /\ err' = IF Failed(res) THEN MapErr(res) ELSE err
    /\ UNCHANGED <<output_state, pins, latch, data, chain, visible, index,
                   command, pinResult, visibleAtEntry, prev, released>>
    /\ UNCHANGED callerVars
    /\ UNCHANGED taskVars

\* self.latch.borrow_mut().set_high().map_err(|_e| ())?;  Ok(())
LatchHigh_omitted ==
    /\ pc = "latch_high"
    /\ pc' = "ret"
    /\ result' = "Ok"
    /\ i' = 0
    /\ UNCHANGED <<output_state, pins, clock, latch, data, chain, visible,
                   index, command, err, pinResult, writes, visibleAtEntry,
                   prev, released, faults>>
    /\ UNCHANGED callerVars
    /\ UNCHANGED taskVars

LatchHigh ==
    /\ pc = "latch_high"
    /\ \E res \in PinResults :
        /\ FaultAllowed(res, faults)
        /\ faults' = FaultsAfter(res, faults)
        /\ writes' = Append(writes, Entry("latch", TRUE, res))
        /\ latch' = PinLevel(latch, TRUE, res)
        /\ visible' = IF RisingEdge(latch, latch') THEN chain ELSE visible
        /\ pc' = "ret"
        /\ i' = 0
        /\ result' = IF Failed(res) THEN "Err" ELSE "Ok"
        /\ err' = IF Failed(res) THEN MapErr(res) ELSE err
    /\ UNCHANGED <<output_state, pins, clock, data, chain, index, command,
                   pinResult, visibleAtEntry, prev, released>>
    /\ UNCHANGED callerVars
    /\ UNCHANGED taskVars

------------------------------------------------------------------------------

Next ==
    \/ decompose
    \/ release
    \/ \E p \in DOMAIN pins : set_low(p)
    \/ \E p \in DOMAIN pins : set_high(p)
    \/ PinReturn
    \/ UpdateStore
    \/ LatchLow
    \/ ShiftData
    \/ ClockHigh
    \/ ClockLow
    \/ LatchHigh

Spec == Init /\ [][Next]_vars

------------------------------------------------------------------------------
(* update(index, command), freertos variant.  The register's fields are     *)
(* Arc<Mutex<..>>; every access takes the field's lock with a timeout of    *)
(* one millisecond.  A task that finds the Mutex held either keeps waiting  *)
(* (it takes no step) or its lock times out (it takes the else branch).     *)

\* What the tasks never touch: the single-threaded call's position and
\* history, and the register behind the pins.
refCellVars == <<chain, visible, pc, index, command, i, result, err,
                 pinResult, writes, visibleAtEntry, prev, released,
                 commanded, called>>

\* mutex.lock(Duration::ms(1)) returns Ok(guard) only when the Mutex is free.
Acquired(own, m) == own[m] = "free"

\* A guard goes out of scope: its Mutex is free again.
Drop(own, m) == [own EXCEPT ![m] = "free"]

\* update returns: every guard the task still holds is dropped.
DropAll_leak(own, t) == own
DropAll(own, t) == [m \in Mutexes |-> IF own[m] = t THEN "free" ELSE own[m]]

\* The pin whose Mutex guards each write of the sequence.
StepPin(step) ==
    CASE step = "latch_low" -> "latch"
      [] step = "data" -> "data"
      [] step = "clock_high" -> "clock"
      [] step = "clock_low" -> "clock"
      [] step = "latch_high" -> "latch"

\* The level each write of the sequence drives.
StepLevel(step, os, k) ==
    CASE step = "latch_low" -> FALSE
      [] step = "data" -> DataLevel(os[BitIndex(Len_(os), k)])
      [] step = "clock_high" -> TRUE
      [] step = "clock_low" -> FALSE
      [] step = "latch_high" -> TRUE

\* The write that follows in the sequence, "done" after the last one.
NextStep(step, len, k) ==
    CASE step = "latch_low" ->
             IF LoopContinues(len, 1) THEN "data" ELSE "latch_high"
      [] step = "data" -> "clock_high"
      [] step = "clock_high" -> "clock_low"
      [] step = "clock_low" ->
             IF LoopContinues(len, k + 1) THEN "data" ELSE "latch_high"
      [] step = "latch_high" -> "done"

\* The loop variable at the write that follows.
NextI(step, k) ==
    CASE step = "latch_low" -> 1
      [] step = "clock_low" -> k + 1
      [] step = "latch_high" -> 0
      [] OTHER -> k

\* A task calls set_high / set_low on one of the virtual pins.
RTCall(t) ==
    /\ tpc[t] = "idle"
    /\ \E p \in DOMAIN pins, cmd \in BOOLEAN :
        /\ tindex' = [tindex EXCEPT ![t] = pins[p]]
        /\ tcommand' = [tcommand EXCEPT ![t] = cmd]
    /\ tpc' = [tpc EXCEPT ![t] = "lock_store"]
    /\ tresult' = [tresult EXCEPT ![t] = "none"]
    /\ tskipped' = [tskipped EXCEPT ![t] = FALSE]
    /\ UNCHANGED <<output_state, pins, clock, latch, data, faults, owner,
                   tstep, ti>>
    /\ UNCHANGED refCellVars

\* if let Ok(mut output_state) = self.output_state.lock(..) { .. };
\* there is no else: when the lock times out the store is left out.
RTLockStore(t) ==
    /\ tpc[t] = "lock_store"
    /\ IF Acquired(owner, "output_state")
       THEN /\ owner' = [owner EXCEPT !["output_state"] = t]
            /\ tpc' = [tpc EXCEPT ![t] = "store"]
            /\ UNCHANGED <<tindex, tcommand, tskipped>>
       ELSE /\ tpc' = [tpc EXCEPT ![t] = "lock_shift"]
            /\ tskipped' = [tskipped EXCEPT ![t] = TRUE]
            /\ tindex' = [tindex EXCEPT ![t] = 0]
            /\ tcommand' = [tcommand EXCEPT ![t] = FALSE]
            /\ UNCHANGED owner
    /\ UNCHANGED <<output_state, pins, clock, latch, data, faults, tstep,
                   ti, tresult>>
    /\ UNCHANGED refCellVars

\* output_state[index] = command; the guard is dropped at the end of the if.
\* update never reads index and command again: they are cleared here.
RTStore(t) ==
    /\ tpc[t] = "store"
    /\ output_state' = Store(output_state, tindex[t], tcommand[t])
    /\ owner' = Drop(owner, "output_state")
    /\ tpc' = [tpc EXCEPT ![t] = "lock_shift"]
    /\ tindex' = [tindex EXCEPT ![t] = 0]
    /\ tcommand' = [tcommand EXCEPT ![t] = FALSE]
    /\ UNCHANGED <<pins, clock, latch, data, faults, tstep, ti, tresult,
                   tskipped>>
    /\ UNCHANGED refCellVars

\* if let Ok(output_state) = self.output_state.lock(..) { .. } else { Err(()) }
RTLockShift_unguarded(t) ==
    /\ tpc[t] = "lock_shift"
    /\ IF Acquired(owner, "output_state")
       THEN /\ owner' = [owner EXCEPT !["output_state"] = t]
            /\ tpc' = [tpc EXCEPT ![t] = "lock_pin"]
            /\ tstep' = [tstep EXCEPT ![t] = "latch_low"]
            /\ UNCHANGED tresult
       ELSE /\ tpc' = [tpc EXCEPT ![t] = "lock_pin"]
            /\ tstep' = [tstep EXCEPT ![t] = "latch_low"]
            /\ UNCHANGED <<owner, tresult>>
    /\ UNCHANGED <<output_state, pins, clock, latch, data, faults, tindex,
                   tcommand, ti, tskipped>>
    /\ UNCHANGED refCellVars

RTLockShift(t) ==
    /\ tpc[t] = "lock_shift"
    /\ IF Acquired(owner, "output_state")
       THEN /\ owner' = [owner EXCEPT !["output_state"] = t]
            /\ tpc' = [tpc EXCEPT ![t] = "lock_pin"]
            /\ tstep' = [tstep EXCEPT ![t] = "latch_low"]
            /\ UNCHANGED tresult
       ELSE /\ tpc' = [tpc EXCEPT ![t] = "ret"]
            /\ tresult' = [tresult EXCEPT ![t] = "Err"]
            /\ UNCHANGED <<owner, tstep>>
    /\ UNCHANGED <<output_state, pins, clock, latch, data, faults, tindex,
                   tcommand, ti, tskipped>>
    /\ UNCHANGED refCellVars

\* The task moves past the write it is at, own being the Mutex owners once
\* the pin's guard is gone; past the last write update returns Ok(()).
RTAdvance(t, own) ==
    LET nxt == NextStep(tstep[t], Len_(output_state), ti[t]) IN
    /\ tstep' = [tstep EXCEPT ![t] = IF nxt = "done" THEN "none" ELSE nxt]
    /\ ti' = [ti EXCEPT ![t] = NextI(tstep[t], ti[t])]
    /\ tpc' = [tpc EXCEPT ![t] = IF nxt = "done" THEN "ret" ELSE "lock_pin"]
    /\ tresult' = [tresult EXCEPT ![t] = IF nxt = "done" THEN "Ok" ELSE @]
    /\ owner' = IF nxt = "done" THEN DropAll(own, t) ELSE own

\* if let Ok(mut pin) = self.<pin>.lock(..) { .. }; there is no else: when
\* the lock times out the write is left out and update goes on.
RTLockPin(t) ==
    /\ tpc[t] = "lock_pin"
    /\ IF Acquired(owner, StepPin(tstep[t]))
       THEN /\ owner' = [owner EXCEPT ![StepPin(tstep[t])] = t]
            /\ tpc' = [tpc EXCEPT ![t] = "write_pin"]
            /\ UNCHANGED <<tstep, ti, tresult, tskipped>>
       ELSE /\ RTAdvance(t, owner)
            /\ tskipped' = [tskipped EXCEPT ![t] = TRUE]
    /\ UNCHANGED <<output_state, pins, clock, latch, data, faults, tindex,
                   tcommand>>
    /\ UNCHANGED refCellVars

\* pin.set_high() / pin.set_low() followed by .map_err(|_e| ())?; : an Err
\* ends update at once, with every guard dropped on the way out.
RTWritePin(t) ==
    /\ tpc[t] = "write_pin"
    /\ \E res \in PinResults :
        LET m == StepPin(tstep[t])
            lvl == StepLevel(tstep[t], output_state, ti[t])
        IN
        /\ FaultAllowed(res, faults)
        /\ faults' = FaultsAfter(res, faults)
        /\ clock' = IF m = "clock" THEN PinLevel(clock, lvl, res) ELSE clock
        /\ latch' = IF m = "latch" THEN PinLevel(latch, lvl, res) ELSE latch
        /\ data' = IF m = "data" THEN PinLevel(data, lvl, res) ELSE data
        /\ IF Failed(res)
           THEN /\ tpc' = [tpc EXCEPT ![t] = "ret"]
                /\ tresult' = [tresult EXCEPT ![t] = "Err"]
                /\ tstep' = [tstep EXCEPT ![t] = "none"]
                /\ ti' = [ti EXCEPT ![t] = 0]
                /\ owner' = DropAll(owner, t)
           ELSE RTAdvance(t, Drop(owner, m))
    /\ UNCHANGED <<output_state, pins, tindex, tcommand, tskipped>>
    /\ UNCHANGED refCellVars

\* The pin method returns what update returned; the task is free to call
\* again.
RTReturn(t) ==
    /\ tpc[t] = "ret"
    /\ tpc' = [tpc EXCEPT ![t] = "idle"]
    /\ tresult' = [tresult EXCEPT ![t] = "none"]
    /\ tskipped' = [tskipped EXCEPT ![t] = FALSE]
    /\ UNCHANGED <<output_state, pins, clock, latch, data, faults, owner,
                   tstep, tindex, tcommand, ti>>
    /\ UNCHANGED refCellVars

\* The steps of one task inside update.
RTUpdate(t) ==
    \/ RTLockStore(t)
    \/ RTStore(t)
    \/ RTLockShift(t)
    \/ RTLockPin(t)
    \/ RTWritePin(t)

NextRT ==
    \/ decompose
    \/ \E t \in Tasks : RTCall(t)
    \/ \E t \in Tasks : RTUpdate(t)
    \/ \E t \in Tasks : RTReturn(t)

\* new(clock, latch, data) of the freertos variant.  The register behind the
\* pins is not followed here, so one power-on pattern stands for all.
InitRT ==
    /\ Init
    /\ Len_(output_state) <= MaxSizeRT
    /\ chain = AllLow(Len_(output_state))
    /\ visible = AllLow(Len_(output_state))

SpecRT == InitRT /\ [][NextRT]_vars

\* A timed lock always returns and a running task is always scheduled again:
\* a task inside update that can step does step.
FairSpecRT == SpecRT /\ \A t \in Tasks : WF_vars(RTUpdate(t))

------------------------------------------------------------------------------
(* Vocabulary of the properties                                             *)

\* The width N of the register.
N == Len_(output_state)

\* The last update has returned and no update is in progress.
Returned == result # "none"

AllOk(w) == \A k \in DOMAIN w : w[k].res = "Ok"

IsPrefix(a, b) == Len(a) <= Len(b) /\ \A k \in 1..Len(a) : a[k] = b[k]

\* The writes of one fault-free update of a register whose state is os:
\* latch low, then per bit N-1 down to 0 data, clock high, clock low, then
\* latch high.
ExpectedWrites(os) ==
    LET n == Len_(os) IN
    [k \in 1..(3 * n + 2) |->
        IF k = 1 THEN Entry("latch", FALSE, "Ok")
        ELSE IF k = 3 * n + 2 THEN Entry("latch", TRUE, "Ok")
        ELSE LET bit == (n - 1) - ((k - 2) \div 3)
                 step == (k - 2) % 3
             IN  IF step = 0 THEN Entry("data", os[bit], "Ok")
                 ELSE IF step = 1 THEN Entry("clock", TRUE, "Ok")
                 ELSE Entry("clock", FALSE, "Ok")]

IsData(e) == e.pin = "data"

\* The levels written to the data line, in order.
DataWrites(w) == LET d == SelectSeq(w, IsData) IN [k \in 1..Len(d) |-> d[k].level]

\* Clock pulses: a clock-high write directly followed by a clock-low write.
ClockPulses(w) ==
    Cardinality({k \in 1..(Len(w) - 1) :
        /\ w[k] = Entry("clock", TRUE, "Ok")
        /\ w[k + 1] = Entry("clock", FALSE, "Ok")})

IsLatch(e) == e.pin = "latch"

\* Latch cycles: a latch-low write whose next latch write is latch-high.
LatchCycles(w) ==
    LET l == SelectSeq(w, IsLatch) IN
    Cardinality({k \in 1..(Len(l) - 1) :
        /\ l[k] = Entry("latch", FALSE, "Ok")
        /\ l[k + 1] = Entry("latch", TRUE, "Ok")})

InUpdate == pc \in {"update", "latch_low", "data", "clock_high", "clock_low",
                    "latch_high"}

DroveLatchLow(w) == \E k \in DOMAIN w : w[k] = Entry("latch", FALSE, "Ok")

\* The error names of the spec's taxonomy.
RoleTag(pin) ==
    CASE pin = "clock" -> "ClockPinError"
      [] pin = "latch" -> "LatchPinError"
      [] pin = "data" -> "DataPinError"

------------------------------------------------------------------------------
C2_BitOrder ==
    /\ result = "Ok" =>
          /\ Len(DataWrites(writes)) = N
          /\ \A k \in 1..N : DataWrites(writes)[k] = output_state[N - k]
    /\ DataSequence([k \in 0..7 |-> k \in {7, 3, 0}], 8)
          = <<TRUE, FALSE, FALSE, FALSE, TRUE, FALSE, FALSE, TRUE>>

C2_Witness ==
    /\ pc = "idle"
    /\ result = "Ok"
    /\ N = MaxSize
    /\ output_state[N - 1]
    /\ ~output_state[0]

(* C3: after any update that returns Ok the register's visible outputs equal *)
(* output_state, whatever updates, successful or failed, came before.        *)
C3_VisibleEqualsOutputState ==
    result = "Ok" => visible = output_state

(* C4: set_high() on pin i followed by set_low() on pin i, fault-free, makes *)
(* 2*N clock pulses (N per call) and 2 latch low-high cycles (one per call)  *)
(* and leaves output_state[i] false.                                         *)
C4_HighThenLow ==
    (/\ result = "Ok" /\ ~command
     /\ prev.result = "Ok" /\ prev.command /\ prev.index = index)
    => /\ ClockPulses(prev.writes) = N
       /\ ClockPulses(writes) = N
       /\ ClockPulses(prev.writes) + ClockPulses(writes) = 2 * N
       /\ LatchCycles(prev.writes) = 1
       /\ LatchCycles(writes) = 1
       /\ ~output_state[index]

C4_Witness ==
    /\ pc = "idle"
    /\ result = "Ok" /\ ~command
    /\ prev.result = "Ok" /\ prev.command /\ prev.index = index
    /\ N = MaxSize
    /\ index = N - 1

(* C5: a failing pin write ends update at once: no write to clock, data or   *)
(* latch follows it, so latch is not driven high after a failure.            *)
C5_AbortOnFailure ==
    \A k \in DOMAIN writes :
        writes[k].res # "Ok" => k = Len(writes) /\ result = "Err"

\* The clock pin fails on the 3rd pulse.
C5_Witness ==
    /\ pc = "idle"
    /\ result = "Err"
    /\ N = MaxSize
    /\ Len(writes) = 9
    /\ writes[9].pin = "clock" /\ writes[9].level /\ writes[9].res # "Ok"
    /\ ~latch

(* C6: every failing pin write is surfaced as the Err result of that update  *)
(* and of the set_high/set_low that called it; the write is not retried and  *)
(* update never returns Ok after a pin write failed.                         *)
C6_FailureSurfaced ==
    /\ ~AllOk(writes) <=> result = "Err"
    /\ result = "Ok" => AllOk(writes)
    /\ \A k \in 1..(Len(writes) - 1) : writes[k].res = "Ok"
    /\ pc \in {"idle", "released"} /\ Returned => pinResult = result

C6_Witness ==
    /\ pc = "idle"
    /\ pinResult = "Err"
    /\ writes[Len(writes)].pin = "data"
    /\ writes[Len(writes)].res # "Ok"

(* C7: the error a failed update returns names the role that failed:         *)
(* ClockPinError, LatchPinError or DataPinError.                             *)
C7_ErrorNamesRole ==
    result = "Err" => err = RoleTag(writes[Len(writes)].pin)

(* C8: an update that fails at any pin write leaves the register's visible   *)
(* outputs as they were when it was entered, never the part-shifted chain.   *)
C8_VisibleUnchangedOnFailure ==
    (result = "Err" \/ InUpdate) => visible = visibleAtEntry

\* The last write, latch high, fails with a chain that differs from the
\* visible outputs.
C8_Witness ==
    /\ pc = "idle"
    /\ result = "Err"
    /\ writes[Len(writes)] = Entry("latch", TRUE, "PinFault")
    /\ chain # visible

(* C9: output_state is not rolled back: after a failed update(i, v),         *)
(* output_state[i] = v, and a following successful update(j, w), j # i,      *)
(* shifts out v at bit position i.                                           *)
C9_NoRollback ==
    /\ result = "Err" => output_state[index] = command
    /\ (result = "Ok" /\ prev.result = "Err" /\ prev.index # index)
         => /\ output_state[prev.index] = prev.command
            /\ DataWrites(writes)[N - prev.index] = prev.command

C9_Witness ==
    /\ pc = "idle"
    /\ result = "Ok"
    /\ prev.result = "Err" /\ prev.index # index /\ prev.command
    /\ ~command

(* C10 as stated: once update has driven latch low, latch is high again when *)
(* update has returned, whether it succeeded or failed.                      *)
C10_LatchHighOnReturn ==
    (Returned /\ DroveLatchLow(writes)) => latch

(* C10 as amended: latch is high again when update returns Ok; when a pin    *)
(* write after latch-low fails, update returns with latch still low.         *)
C10_LatchHighOnOkOnly ==
    /\ result = "Ok" =>
          /\ latch
          /\ writes[Len(writes)] = Entry("latch", TRUE, "Ok")
    /\ (result = "Err" /\ DroveLatchLow(writes)) => ~latch

C10_Witness ==
    /\ pc = "idle"
    /\ result = "Err"
    /\ DroveLatchLow(writes)
    /\ writes[Len(writes)].pin = "clock"
    /\ ~latch

(* C13: RefCell variant: after any sequence of set_high/set_low calls,       *)
(* failed ones included, output_state[i] is the last value commanded through *)
(* pin i, or false if pin i was never commanded; an update for index i never *)
(* changes output_state[j] for j # i.                                        *)
C13_LastCommanded ==
    pc # "update" => output_state = commanded

\* Two pins were commanded high, the second call failed, a third stayed low.
C13_Witness ==
    /\ pc = "idle"
    /\ N = MaxSize
    /\ result = "Err" /\ command
    /\ prev.result = "Ok" /\ prev.command /\ prev.index # index
    /\ \E k \in DOMAIN commanded : ~commanded[k]

(* C14: update(i, true) twice in a row on fault-free pins makes two full     *)
(* shift sequences (latch low, N data/clock steps, latch high) with the same *)
(* pin writes: a commanded value equal to the current one is not skipped.    *)
C14_NoDeduplication ==
    (/\ result = "Ok" /\ command
     /\ prev.result = "Ok" /\ prev.command /\ prev.index = index)
    => /\ writes = prev.writes
       /\ Len(writes) = 3 * N + 2
       /\ ClockPulses(writes) = N
       /\ LatchCycles(writes) = 1
       /\ writes[1] = Entry("latch", FALSE, "Ok")
       /\ writes[Len(writes)] = Entry("latch", TRUE, "Ok")

C14_Witness ==
    /\ pc = "idle"
    /\ result = "Ok" /\ command
    /\ prev.result = "Ok" /\ prev.command /\ prev.index = index
    /\ N = MaxSize

\* No pin method has been called on the register yet.
Fresh == called.name = "none"

(* C15: new() gives a register whose output_state is false at every index   *)
(* and writes to none of the three pins.                                     *)
C15_NewAllLow ==
    Fresh => /\ \A k \in DOMAIN output_state : ~output_state[k]
             /\ DOMAIN output_state = 0..(N - 1)
             /\ writes = <<>>
             /\ faults = 0

C15_Witness ==
    /\ Fresh
    /\ N = MaxSize
    /\ pins = <<>>

(* C16: decompose() returns N virtual pins with the indices 0, 1, ..., N-1   *)
(* in array order, writes to no physical pin and leaves output_state as it   *)
(* was.                                                                      *)
C16_Decompose ==
    [][(pc' = "idle" /\ pins' # pins) =>
          /\ pins' = [k \in 1..N |-> k - 1]
          /\ UNCHANGED <<output_state, clock, latch, data, chain, visible,
                         writes>>]_vars

C16_Witness ==
    /\ N = MaxSize
    /\ Len(pins) = N
    /\ \A k \in 1..N : pins[k] = k - 1
    /\ Fresh

(* C17: release() returns the clock, latch and data handles in that order,   *)
(* with the levels the last pin writes left, writes to no pin, and no update *)
(* happens on the register afterwards.                                       *)
C17_Release ==
    /\ [][pc' = "released" =>
             /\ released' = <<clock, latch, data>>
             /\ UNCHANGED <<clock, latch, data, chain, visible, writes>>]_vars
    /\ [][pc = "released" => UNCHANGED vars]_vars

\* Released after an update that left clock low and latch high.
C17_Witness ==
    /\ pc = "released"
    /\ result = "Ok"
    /\ released = <<FALSE, TRUE, data>>

(* C18: on the pin with index i, set_high() is update(i, true) and set_low() *)
(* is update(i, false): same arguments, same result (Ok or update's error),  *)
(* and the pin method itself changes no state of the register or the pins.   *)
C18_PinForwards ==
    /\ [](called.name = "set_high" => command /\ index = called.pin - 1)
    /\ [](called.name = "set_low" => ~command /\ index = called.pin - 1)
    /\ []((pc \in {"idle", "released"} /\ Returned) => pinResult = result)
    /\ [][(pc = "idle" \/ pc = "ret") =>
             UNCHANGED <<output_state, clock, latch, data, chain, visible>>]_vars
    /\ [][pc = "ret" => UNCHANGED <<writes, result, err>>]_vars

C18_Witness ==
    /\ pc = "idle"
    /\ called = [name |-> "set_high", pin |-> MaxSize]
    /\ pinResult = "Err"
    /\ prev.result = "Ok"

(* C19: when an update has returned Ok and none is in progress, clock is low,*)
(* latch is high and data is at the level of output_state[0]; a data write   *)
(* never falls between a clock-high write and the clock-low write after it.  *)
C19_IdleLevels ==
    /\ result = "Ok" => ~clock /\ latch /\ data = output_state[0]
    /\ \A k \in DOMAIN writes :
          writes[k].pin = "data" =>
              \A j \in 1..(k - 1) :
                  (/\ writes[j].pin = "clock"
                   /\ \A m \in (j + 1)..(k - 1) : writes[m].pin # "clock")
                  => ~writes[j].level

C19_Witness ==
    /\ pc = "idle"
    /\ result = "Ok"
    /\ N = MaxSize
    /\ output_state[0] /\ data
    /\ ~output_state[N - 1]

------------------------------------------------------------------------------
(* Properties of the freertos variant, under SpecRT and FairSpecRT          *)

\* The task is inside update, between entry and return.
InUpdateRT(t) == tpc[t] \notin {"idle", "ret"}

\* The task is in the latch-low, shift, latch-high sequence of update: from
\* taking the pin lock of the latch-low write to the end of the last write.
InShift(t) == tpc[t] \in {"lock_pin", "write_pin"}

\* C11: in the freertos variant the latch-low, shift, latch-high sequence
\* of an update is mutually exclusive: a task inside the sequence holds the
\* output_state Mutex from before its latch-low to after its last pin
\* write, so no other task is inside the sequence or writes a pin meanwhile.
C11_ShiftExclusive ==
    \A t \in Tasks :
        InShift(t) =>
            /\ owner["output_state"] = t
            /\ \A u \in Tasks \ {t} :
                  /\ ~InShift(u)
                  /\ \A m \in Mutexes : owner[m] # u

\* One task is in the middle of the sequence, its clock line high, while the
\* other was turned away by the output_state lock and returned Err.
C11_Witness ==
    \E t \in Tasks, u \in Tasks :
        /\ t # u
        /\ tpc[t] = "lock_pin"
        /\ tstep[t] = "clock_low"
        /\ clock
        /\ tpc[u] = "ret"
        /\ tresult[u] = "Err"
        /\ faults = 0

\* C12: in the freertos variant every lock timeout surfaces as an error:
\* update never returns Ok when one of its locks timed out and the step
\* the lock guards was left out.
C12_TimeoutSurfaced ==
    \A t \in Tasks :
        (tpc[t] = "ret" /\ tskipped[t]) => tresult[t] = "Err"

\* C20: in the freertos variant every update eventually returns, a task
\* outside update holds none of the four Mutexes, also after an early abort
\* on a failed pin write, and a task inside update can always take a step:
\* no deadlock is reachable.
C20_ReturnsAndFrees ==
    /\ [](\A t \in Tasks :
            ~InUpdateRT(t) => \A m \in Mutexes : owner[m] # t)
    /\ [](\A t \in Tasks : InUpdateRT(t) => ENABLED RTUpdate(t))
    /\ \A t \in Tasks : InUpdateRT(t) ~> (tpc[t] = "ret")

\* One update aborted on a failed pin write and returned Err; every Mutex
\* is free, and the other task, waiting at the output_state lock for
\* its shift, has its way open.
C20_Witness ==
    \E t \in Tasks, u \in Tasks :
        /\ t # u
        /\ tpc[t] = "ret"
        /\ tresult[t] = "Err"
        /\ ~tskipped[t]
        /\ faults = 1
        /\ \A m \in Mutexes : owner[m] = "free"
        /\ tpc[u] = "lock_shift"

====
